---- MODULE Spec2Model ----
(***************************************************************************)
(* Model of the homie device runtime (package homie, device.go).           *)
(*                                                                         *)
(* Two kinds of execution context drive one device object: caller          *)
(* contexts, which invoke AddNode, SetDevicePublisher, Connect,            *)
(* PublishStats and Disconnect, and the transport's own context, which     *)
(* runs the on-connect and connection-lost handlers.  Strings are          *)
(* sequences of tokens, so that Sprintf and strings.Join are computed.     *)
(***************************************************************************)
EXTENDS Integers, Sequences, FiniteSets, TLC

(***************************************************************************)
(* Bounds of the model.                                                    *)
(***************************************************************************)
MaxConnectCalls == 1
MaxConnEvents == 2
MaxAddCalls == 2
MaxSetPubCalls == 2
MaxDisconnectCalls == 1
MaxStatsCalls == 1
MaxClock == 2
MaxConnectAttempts == 2
MaxSlices == 2
MaxSendCalls == 1

(***************************************************************************)
(* Values.                                                                 *)
(***************************************************************************)
Nil == "nil"
Callers == {"c1", "c2"}

\* Node objects handed to AddNode.  n1 and n3 carry the same name.
NodeObjs == {"n1", "n2", "n3", "n4"}
NameOf == [n \in NodeObjs |->
             CASE n = "n1" -> <<"a">>
               [] n = "n2" -> <<"b">>
               [] n = "n3" -> <<"a">>
               [] n = "n4" -> <<>>]
\* Which node objects carry a per-node publisher callback.
NodePublisherOf == [n \in NodeObjs |-> IF n \in {"n1", "n4"} THEN "np" ELSE Nil]

\* Arguments of SetDevicePublisher: a func value may be nil.
Publishers == {Nil, "p1", "p2"}

\* Configuration of the device under study.
DeviceName == <<"sensor1">>
BaseTopic == <<"home", "/">>
StatsReportInterval == 60
HomieSpecVersion == <<"HomieSpecVersion">>
StartupTime == 1
\* config.Mqtt.OnConnectionLost is set
OnConnectionLostConfigured == TRUE
TicksPerSecond == 2
ZeroTime == 0

(***************************************************************************)
(* Strings.                                                                *)
(***************************************************************************)
Digits == <<"0", "1", "2", "3", "4", "5", "6", "7", "8", "9">>

RECURSIVE FormatInt(_)
\* fmt.Sprintf("%d", n) for n >= 0
FormatInt(n) ==
  IF n < 10 THEN <<Digits[n + 1]>>
  ELSE FormatInt(n \div 10) \o <<Digits[(n % 10) + 1]>>

RECURSIVE Join(_, _)
\* strings.Join(elems, sep)
Join(elems, sep) ==
  IF Len(elems) = 0 THEN <<>>
  ELSE IF Len(elems) = 1 THEN elems[1]
  ELSE elems[1] \o sep \o Join(Tail(elems), sep)

\* All orders in which a range over a map with key set S may visit the keys.
RangeOrders(S) ==
  {o \in [1..Cardinality(S) -> S] : \A i, j \in 1..Cardinality(S) : o[i] = o[j] => i = j}

IsPrefix(s, t) == Len(s) <= Len(t) /\ SubSeq(t, 1, Len(s)) = s

VARIABLES
  nodes,        \* d.nodes: node name -> node object
  owner,        \* per node object: how many times SetDevice was called on it
  publisher,    \* d.publisher
  mutex,        \* d.mutex: Nil or the caller holding it
  client,       \* d.client: Nil or a connection handle
  connectTime,  \* d.stats.connectTime
  clock,        \* time.Now()
  conn,         \* state of the transport session
  token,        \* the pending result of client.Connect()
  will,         \* last-will registered in the client options
  pc,           \* position of each caller context
  arg,          \* argument of the call a caller context is in
  last,         \* the most recently finished call and its outcome
  tpc,          \* position of the transport context
  pendingConnect, \* a connected event waits for its handler
  pendingLost,  \* a connection-lost event waits for its handler
  evlog,        \* calls issued by the handler of the current connected event
  retained,     \* topic -> payload of the last publish the transport accepted
  nodesHist,    \* $nodes publishes of all bootstrap runs
  pubResults,   \* outcomes of the finished SetDevicePublisher calls
  lostHookCalls, \* invocations of the user's connection-lost hook
  slices,       \* 3-second waits the connect loop has sat through
  config,       \* the device's name and the base topic of its configuration
  sendCalls,    \* SendMessage calls made by the caller
  connectCalls, connEvents, bootDone, addCalls, disconnectCalls, statsCalls

vars == <<nodes, owner, publisher, mutex, client, connectTime, clock, conn,
          token, will, pc, arg, last, tpc, pendingConnect, pendingLost,
          evlog, retained, nodesHist, pubResults, lostHookCalls, slices,
          config, sendCalls, connectCalls, connEvents, bootDone, addCalls, disconnectCalls,
          statsCalls>>

deviceVars == <<nodes, owner, publisher, mutex, client, connectTime>>
transportVars == <<conn, token, will, tpc, pendingConnect, pendingLost>>
counterVars == <<connectCalls, connEvents, bootDone, addCalls,
                 disconnectCalls, statsCalls>>

\* The nil MqttAdapter and the connection handle of the k-th connected event
\* of the inst-th mqtt client.
NilClient == [inst |-> 0, id |-> 0]
Handle(inst, k) == [inst |-> inst, id |-> k]
NoWill == [topic |-> <<>>, payload |-> <<>>, qos |-> 0, retained |-> FALSE]

\* The record of a finished call
Call(op, result) == [op |-> op, result |-> result]

\* A map literal with one more entry.
MapPut(m, k, v) == [x \in (DOMAIN m) \cup {k} |-> IF x = k THEN v ELSE m[x]]
EmptyMap == [x \in {} |-> Nil]

(***************************************************************************)
(* NewDevice                                                               *)
(***************************************************************************)
\* &device{name: name, config: cfg, stats: ..., mutex: ...}
NewDevice(name, baseTopic) ==
  /\ config = [name |-> name, baseTopic |-> baseTopic]
  /\ sendCalls = 0
  /\ nodes = EmptyMap
  /\ owner = [n \in NodeObjs |-> 0]
  /\ publisher = Nil
  /\ mutex = Nil
  /\ client = NilClient
  /\ connectTime = ZeroTime
  /\ clock = StartupTime
  /\ conn = "none"
  /\ token = "none"
  /\ will = NoWill
  /\ pc = [c \in Callers |-> "idle"]
  /\ arg = [c \in Callers |-> Nil]
  /\ last = Call("NewDevice", "ok")
  /\ tpc = "idle"
  /\ pendingConnect = FALSE
  /\ pendingLost = FALSE
  /\ evlog = <<>>
  /\ retained = EmptyMap
  /\ nodesHist = <<>>
  /\ pubResults = <<>>
  /\ lostHookCalls = 0
  /\ slices = 0
  /\ connectCalls = 0
  /\ connEvents = 0
  /\ bootDone = 0
  /\ addCalls = 0
  /\ disconnectCalls = 0
  /\ statsCalls = 0

Init == NewDevice(DeviceName, BaseTopic)

\* Devices of several names and base topics
DeviceNames == {<<"sensor1">>, <<"a", "/", "b">>, <<>>}
BaseTopics == {<<"home", "/">>, <<>>}
InitTopic == \E name \in DeviceNames, base \in BaseTopics : NewDevice(name, base)

(***************************************************************************)
(* Topic, SendMessage                                                      *)
(***************************************************************************)
Sprintf_trim(base, name, part) ==
  base \o name \o (IF part = <<>> THEN <<>> ELSE <<"/">> \o part)
\* fmt.Sprintf("%s%s/%s", base, name, part)
Sprintf(base, name, part) == base \o name \o <<"/">> \o part

\* d.Topic(part)
Topic(part) == Sprintf(config.baseTopic, config.name, part)

\* The transport takes a publish while the session of the handle is up or
\* waits for its automatic reconnect; a closed client rejects it.
Accepts == client.inst = connectCalls /\ conn \in {"connected", "lost"}

PublishCall(topic, payload) ==
  [kind |-> "publish", topic |-> topic, qos |-> 1, retained |-> TRUE,
   payload |-> payload]

\* d.client.Publish(d.Topic(topic), 1, true, message) on a non-nil client
SendMessage(topic, message) ==
  retained' = IF Accepts THEN MapPut(retained, Topic(topic), message)
              ELSE retained

Uptime == FormatInt((clock - StartupTime) \div TicksPerSecond)

(***************************************************************************)
(* The clock                                                               *)
(***************************************************************************)
Tick ==
  /\ clock < MaxClock
  /\ clock' = clock + 1
  /\ UNCHANGED <<deviceVars, transportVars, counterVars, pc, arg, last, evlog,
                 retained, nodesHist, pubResults, lostHookCalls, slices, config, sendCalls>>

(***************************************************************************)
(* AddNode                                                                 *)
(***************************************************************************)
AlreadyAdded_never(n) == FALSE
\* _, alreadyAdded := d.nodes[node.Name()]
AlreadyAdded(n) == NameOf[n] \in DOMAIN nodes

\* The range loops of the on-connect handler read d.nodes without a lock;
\* AddNode is taken while that handler is not running.
AddNode(c, n) ==
  /\ pc[c] = "idle"
  /\ connectCalls = 0
  /\ addCalls < MaxAddCalls
  /\ addCalls' = addCalls + 1
  /\ owner' = [owner EXCEPT ![n] = @ + 1]
  /\ IF AlreadyAdded(n)
       THEN /\ nodes' = nodes
            /\ last' = Call("AddNode", "panic")
       ELSE /\ nodes' = MapPut(nodes, NameOf[n], n)
            /\ last' = Call("AddNode", "ok")
  /\ UNCHANGED <<publisher, mutex, client, connectTime, clock, transportVars,
                 pc, arg, evlog, retained, nodesHist, pubResults,
                 lostHookCalls, slices, config, sendCalls, connectCalls, connEvents,
                 bootDone, disconnectCalls, statsCalls>>

\* d.nodes[name]: the node, or nil
GetNode(name) == IF name \in DOMAIN nodes THEN nodes[name] ELSE Nil

(***************************************************************************)
(* SetDevicePublisher                                                      *)
(***************************************************************************)
InSetPub(c) == pc[c] \in {"setpub_check", "setpub_store"}

MutexFree_nolock == TRUE
\* d.mutex.Lock() returns once no context holds the mutex
MutexFree == mutex = Nil

SetPubLock(c, p) ==
  /\ pc[c] = "idle"
  /\ Len(pubResults) + Cardinality({x \in Callers : InSetPub(x)}) < MaxSetPubCalls
  /\ connectCalls = 0
  /\ MutexFree
  /\ mutex' = c
  /\ pc' = [pc EXCEPT ![c] = "setpub_check"]
  /\ arg' = [arg EXCEPT ![c] = p]
  /\ UNCHANGED <<nodes, owner, publisher, client, connectTime, clock,
                 transportVars, counterVars, last, evlog, retained, nodesHist,
                 pubResults, lostHookCalls, slices, config, sendCalls>>

\* if d.publisher != nil { panic }; the deferred Unlock runs on the panic
SetPubCheck(c) ==
  /\ pc[c] = "setpub_check"
  /\ IF publisher # Nil
       THEN /\ pc' = [pc EXCEPT ![c] = "idle"]
            /\ mutex' = IF mutex = c THEN Nil ELSE mutex
            /\ pubResults' = Append(pubResults, [arg |-> arg[c], result |-> "panic"])
            /\ arg' = [arg EXCEPT ![c] = Nil]
            /\ last' = Call("SetDevicePublisher", "panic")
       ELSE /\ pc' = [pc EXCEPT ![c] = "setpub_store"]
            /\ UNCHANGED <<mutex, pubResults, last, arg>>
  /\ UNCHANGED <<nodes, owner, publisher, client, connectTime, clock,
                 transportVars, counterVars, evlog, retained, nodesHist,
                 lostHookCalls, slices, config, sendCalls>>

\* d.publisher = publisher; return d; deferred Unlock
SetPubStore(c) ==
  /\ pc[c] = "setpub_store"
  /\ publisher' = arg[c]
  /\ mutex' = IF mutex = c THEN Nil ELSE mutex
  /\ pc' = [pc EXCEPT ![c] = "idle"]
  /\ pubResults' = Append(pubResults, [arg |-> arg[c], result |-> "ok"])
  /\ last' = Call("SetDevicePublisher", "ok")
  /\ arg' = [arg EXCEPT ![c] = Nil]
  /\ UNCHANGED <<nodes, owner, client, connectTime, clock, transportVars,
                 counterVars, evlog, retained, nodesHist, lostHookCalls, slices, config, sendCalls>>

(***************************************************************************)
(* Connect, createMqttOptions, connect                                     *)
(***************************************************************************)
\* opts.SetBinaryWill(d.Topic("$state"), []byte("lost"), 1, true)
LastWill ==
  [topic |-> Topic(<<"$state">>), payload |-> <<"lost">>, qos |-> 1,
   retained |-> TRUE]

\* createMqttOptions, mqtt.NewClient, client.Connect(): one connect request
\* is handed to the transport and the wait loop starts.  A caller starts a
\* new client only while no session of an earlier one is open and no
\* connected event of an earlier one waits for its handler.
StartConnect(c) ==
  /\ pc[c] = "idle"
  /\ conn \in {"none", "failed", "closed"}
  /\ ~pendingConnect
  /\ connectCalls' = connectCalls + 1
  /\ will' = LastWill
  /\ conn' = "connecting"
  /\ token' = "pending"
  /\ slices' = 0
  /\ pc' = [pc EXCEPT ![c] = "connect_wait"]
  /\ UNCHANGED <<deviceVars, clock, tpc, pendingConnect, pendingLost, arg,
                 last, evlog, retained, nodesHist, pubResults, lostHookCalls,
                 config, sendCalls, connEvents, bootDone, addCalls,
                 disconnectCalls, statsCalls>>

\* Connect, called at most MaxConnectCalls times.
ConnectBegin(c) ==
  /\ connectCalls < MaxConnectCalls
  /\ StartConnect(c)

\* Connect, called again after a failed attempt or after Disconnect.
ConnectAgain(c) ==
  /\ connectCalls < MaxConnectAttempts
  /\ StartConnect(c)

\* One turn of the wait loop: token.WaitTimeout(3 * time.Second) returned
\* false, the result is still pending.
ConnectWait(c) ==
  /\ pc[c] = "connect_wait"
  /\ token = "pending"
  /\ slices < MaxSlices
  /\ slices' = slices + 1
  /\ UNCHANGED <<deviceVars, clock, transportVars, counterVars, pc, arg, last,
                 evlog, retained, nodesHist, pubResults, lostHookCalls,
                 config, sendCalls>>

TokenError_nil == "nil"
\* token.Error()
TokenError == IF token = "err" THEN "error" ELSE "nil"

ResultReady_deadline == token # "pending" \/ slices >= MaxSlices
ResultReady_bootstrapped ==
  token # "pending" /\ (token = "ok" => bootDone >= connectCalls)
\* token.WaitTimeout(3 * time.Second) returns true
ResultReady == token # "pending"

\* for !token.WaitTimeout(3 * time.Second) {}; return token.Error()
ConnectReturn(c) ==
  /\ pc[c] = "connect_wait"
  /\ ResultReady
  /\ pc' = [pc EXCEPT ![c] = "idle"]
  /\ last' = Call("Connect", TokenError)
  /\ UNCHANGED <<deviceVars, clock, transportVars, counterVars, arg, evlog,
                 retained, nodesHist, pubResults, lostHookCalls, slices, config, sendCalls>>

\* a method call on the nil MqttAdapter panics
ClientIsNil == client = NilClient

(***************************************************************************)
(* Topic and SendMessage, called by the caller                             *)
(***************************************************************************)
\* The parts and topics a caller passes
Parts == {<<"$state">>, <<>>, <<"a", "/", "b">>, <<"/", "x">>}

\* d.Topic(part)
TopicCall(c) ==
  /\ pc[c] = "idle"
  /\ \E part \in Parts :
       last' = [op |-> "Topic", part |-> part, result |-> Topic(part)]
  /\ UNCHANGED <<deviceVars, clock, transportVars, counterVars, pc, arg, evlog,
                 retained, nodesHist, pubResults, lostHookCalls, slices,
                 config, sendCalls>>

\* d.SendMessage(topic, "x")
SendCall(c) ==
  /\ pc[c] = "idle"
  /\ sendCalls < MaxSendCalls
  /\ sendCalls' = sendCalls + 1
  /\ \E topic \in Parts :
       IF ClientIsNil
         THEN /\ last' = [op |-> "SendMessage", part |-> topic,
                          result |-> "panic"]
              /\ UNCHANGED retained
         ELSE /\ SendMessage(topic, <<"x">>)
              /\ last' = [op |-> "SendMessage", part |-> topic,
                          result |-> IF Accepts THEN "sent" ELSE "dropped"]
  /\ UNCHANGED <<deviceVars, clock, transportVars, counterVars, pc, arg, evlog,
                 nodesHist, pubResults, lostHookCalls, slices, config>>

(***************************************************************************)
(* PublishStats                                                            *)
(***************************************************************************)
PublishStats(c) ==
  /\ pc[c] = "idle"
  /\ statsCalls < MaxStatsCalls
  /\ statsCalls' = statsCalls + 1
  /\ IF client = NilClient
       THEN /\ last' = Call("PublishStats", "panic")
            /\ UNCHANGED retained
       ELSE /\ SendMessage(<<"$stats", "/", "uptime">>, Uptime)
            /\ last' = Call("PublishStats", "ok")
  /\ UNCHANGED <<deviceVars, clock, transportVars, pc, arg, evlog, nodesHist,
                 pubResults, lostHookCalls, slices, config, sendCalls, connectCalls,
                 connEvents, bootDone, addCalls, disconnectCalls>>

(***************************************************************************)
(* Disconnect                                                              *)
(***************************************************************************)
\* d.SendMessage("$state", "disconnected")
DisconnectSend(c) ==
  /\ pc[c] = "idle"
  /\ disconnectCalls < MaxDisconnectCalls
  /\ disconnectCalls' = disconnectCalls + 1
  /\ IF ClientIsNil
       THEN /\ last' = Call("Disconnect", "panic")
            /\ UNCHANGED <<retained, pc>>
       ELSE /\ SendMessage(<<"$state">>, <<"disconnected">>)
            /\ pc' = [pc EXCEPT ![c] = "disconnect_close"]
            /\ UNCHANGED last
  /\ UNCHANGED <<deviceVars, clock, transportVars, arg, evlog, nodesHist,
                 pubResults, lostHookCalls, slices, config, sendCalls, connectCalls,
                 connEvents, bootDone, addCalls, statsCalls>>

ClientAfterDisconnect_nil == NilClient
\* Disconnect assigns nothing to d.client
ClientAfterDisconnect == client

\* d.client.Disconnect(500); return nil.  The handle closes the session of
\* the mqtt client it was made for; the pending result of a connect that
\* has resolved stays as it is.
DisconnectClose(c) ==
  /\ pc[c] = "disconnect_close"
  /\ client' = ClientAfterDisconnect
  /\ IF client.inst = connectCalls
       THEN conn' = "closed" /\ pendingLost' = FALSE
       ELSE UNCHANGED <<conn, pendingLost>>
  /\ UNCHANGED token
  /\ pc' = [pc EXCEPT ![c] = "idle"]
  /\ last' = Call("Disconnect", "nil")
  /\ UNCHANGED <<nodes, owner, publisher, mutex, connectTime, clock, will,
                 tpc, pendingConnect, counterVars, arg, evlog, retained,
                 nodesHist, pubResults, lostHookCalls, slices, config,
                 sendCalls>>

(***************************************************************************)
(* The transport: handshake, loss and automatic reconnect of the session   *)
(***************************************************************************)
PendingEvents == IF pendingConnect THEN 1 ELSE 0

HandshakeOK ==
  /\ conn = "connecting"
  /\ connEvents + PendingEvents < MaxConnEvents
  /\ conn' = "connected"
  /\ token' = "ok"
  /\ pendingConnect' = TRUE
  /\ UNCHANGED <<deviceVars, clock, will, tpc, pendingLost, counterVars, pc,
                 arg, last, evlog, retained, nodesHist, pubResults,
                 lostHookCalls, slices, config, sendCalls>>

HandshakeFail ==
  /\ conn = "connecting"
  /\ conn' = "failed"
  /\ token' = "err"
  /\ UNCHANGED <<deviceVars, clock, will, tpc, pendingConnect, pendingLost,
                 counterVars, pc, arg, last, evlog, retained, nodesHist,
                 pubResults, lostHookCalls, slices, config, sendCalls>>

NetworkDrop ==
  /\ conn = "connected"
  /\ ~pendingLost
  /\ conn' = "lost"
  /\ pendingLost' = TRUE
  /\ UNCHANGED <<deviceVars, clock, token, will, tpc, pendingConnect,
                 counterVars, pc, arg, last, evlog, retained, nodesHist,
                 pubResults, lostHookCalls, slices, config, sendCalls>>

\* opts.SetAutoReconnect(true)
Reconnect ==
  /\ conn = "lost"
  /\ ~pendingConnect
  /\ connEvents < MaxConnEvents
  /\ conn' = "connected"
  /\ pendingConnect' = TRUE
  /\ UNCHANGED <<deviceVars, clock, token, will, tpc, pendingLost,
                 counterVars, pc, arg, last, evlog, retained, nodesHist,
                 pubResults, lostHookCalls, slices, config, sendCalls>>

OnConnectionLost_clear ==
  client' = NilClient /\ UNCHANGED <<nodes, owner, publisher, mutex, connectTime>>
\* func (d *device) OnConnectionLost(client MqttAdapter, err error) {}
OnConnectionLost == UNCHANGED deviceVars

\* The connection-lost handler: the user's hook, then d.OnConnectionLost.
ConnectionLost ==
  /\ pendingLost
  /\ tpc = "idle"
  /\ pendingLost' = FALSE
  /\ lostHookCalls' = IF OnConnectionLostConfigured THEN lostHookCalls + 1 ELSE lostHookCalls
  /\ OnConnectionLost
  /\ UNCHANGED <<clock, conn, token, will, tpc, pendingConnect,
                 counterVars, pc, arg, last, evlog, retained, nodesHist,
                 pubResults, slices, config, sendCalls>>

(***************************************************************************)
(* OnConnect: initNodes, then initDevice                                   *)
(***************************************************************************)
NextConnectTime_once == IF connectTime = ZeroTime THEN clock ELSE connectTime
\* d.stats.connectTime = time.Now()
NextConnectTime == clock

AfterAssign_firstOnly == IF connEvents = 0 THEN "initNodes" ELSE "initDevice"
\* The code that follows the first two assignments of OnConnect
AfterAssign == "initNodes"

OnConnect ==
  /\ pendingConnect
  /\ tpc = "idle"
  /\ pendingConnect' = FALSE
  /\ connEvents' = connEvents + 1
  /\ client' = Handle(connectCalls, connEvents + 1)
  /\ connectTime' = NextConnectTime
  /\ evlog' = <<>>
  /\ tpc' = AfterAssign
  /\ UNCHANGED <<nodes, owner, publisher, mutex, clock, conn, token, will,
                 pendingLost, pc, arg, last, retained, nodesHist, pubResults,
                 lostHookCalls, slices, config, sendCalls, connectCalls, bootDone, addCalls,
                 disconnectCalls, statsCalls>>

\* The handler's calls on nodes are logged per loop: which nodes the loop
\* called, since the order of a range over a map is not specified and the
\* calls of one loop are to different nodes.
NodeLoop(kind, ns) == [kind |-> kind, nodes |-> ns]

RegisteredNodes == {nodes[k] : k \in DOMAIN nodes}

\* n.Subscribe() for every n of d.nodes
SubscribedNodes == RegisteredNodes

\* n.NodePublisher()(n) for every n of d.nodes with a publisher
InvokedNodePublishers == {n \in RegisteredNodes : NodePublisherOf[n] # Nil}

\* for _, n := range d.nodes { n.Subscribe(); publisher }
InitNodes ==
  /\ tpc = "initNodes"
  /\ evlog' = evlog \o <<NodeLoop("nodeSubscribe", SubscribedNodes),
                         NodeLoop("nodePublisher", InvokedNodePublishers)>>
  /\ tpc' = "initDevice"
  /\ UNCHANGED <<deviceVars, clock, conn, token, will, pendingConnect,
                 pendingLost, counterVars, pc, arg, last, retained, nodesHist,
                 pubResults, lostHookCalls, slices, config, sendCalls>>

\* if !d.client.IsConnected() { panic("not connected") }
InitDeviceCheck ==
  /\ tpc = "initDevice"
  /\ IF conn # "connected"
       THEN /\ tpc' = "idle"
            /\ last' = Call("OnConnect", "panic")
       ELSE /\ tpc' = "$homie"
            /\ UNCHANGED last
  /\ UNCHANGED <<deviceVars, clock, conn, token, will, pendingConnect,
                 pendingLost, counterVars, pc, arg, evlog, retained, nodesHist,
                 pubResults, lostHookCalls, slices, config, sendCalls>>

\* One d.SendMessage of initDevice, issued at position at, followed by then
BootSend(at, topic, message, then) ==
  /\ tpc = at
  /\ SendMessage(topic, message)
  /\ evlog' = Append(evlog, PublishCall(Topic(topic), message))
  /\ tpc' = then
  /\ UNCHANGED <<deviceVars, clock, conn, token, will, pendingConnect,
                 pendingLost, counterVars, pc, arg, last, pubResults,
                 lostHookCalls, slices, config, sendCalls>>

PublishHomie ==
  BootSend("$homie", <<"$homie">>, HomieSpecVersion, "$name") /\ UNCHANGED nodesHist
PublishName ==
  BootSend("$name", <<"$name">>, DeviceName, "$localip") /\ UNCHANGED nodesHist
PublishLocalIP ==
  BootSend("$localip", <<"$localip">>, <<"outboundIP">>, "$implementation")
    /\ UNCHANGED nodesHist
PublishImplementation_skipState ==
  BootSend("$implementation", <<"$implementation">>, <<"homie-go">>,
           "$stats/interval")
    /\ UNCHANGED nodesHist
PublishImplementation ==
  BootSend("$implementation", <<"$implementation">>, <<"homie-go">>, "$state")
    /\ UNCHANGED nodesHist

ReadyState_init == <<"init">>
ReadyState == <<"ready">>

PublishState ==
  BootSend("$state", <<"$state">>, ReadyState, "$stats/interval")
    /\ UNCHANGED nodesHist
PublishStatsInterval ==
  BootSend("$stats/interval", <<"$stats", "/", "interval">>,
           FormatInt(StatsReportInterval), "$nodes")
    /\ UNCHANGED nodesHist

NodeNames_first(ord) == IF Len(ord) = 0 THEN <<>> ELSE <<NameOf[nodes[ord[1]]]>>
\* nodeNames = append(nodeNames, n.Name()) for the nodes in range order
NodeNames(ord) == [i \in 1..Len(ord) |-> NameOf[nodes[ord[i]]]]

\* for _, n := range d.nodes: the order is not specified
RangeOrder(S) == RangeOrders(S)

\* d.SendMessage("$nodes", strings.Join(nodeNames, ","))
PublishNodes ==
  \E ord \in RangeOrder(DOMAIN nodes) :
    /\ BootSend("$nodes", <<"$nodes">>, Join(NodeNames(ord), <<",">>), "nodePublish")
    /\ nodesHist' = Append(nodesHist, [reg |-> DOMAIN nodes,
                                       payload |-> Join(NodeNames(ord), <<",">>)])

\* n.Publish() for every n of d.nodes
PublishedNodes == RegisteredNodes

\* for _, n := range d.nodes { n.Publish() }
PublishAllNodes ==
  /\ tpc = "nodePublish"
  /\ evlog' = Append(evlog, NodeLoop("nodePublish", PublishedNodes))
  /\ tpc' = "devicePublisher"
  /\ UNCHANGED <<deviceVars, clock, conn, token, will, pendingConnect,
                 pendingLost, counterVars, pc, arg, last, retained, nodesHist,
                 pubResults, lostHookCalls, slices, config, sendCalls>>

\* if d.publisher != nil { d.publisher(d) }
InvokeDevicePublisher ==
  /\ tpc = "devicePublisher"
  /\ evlog' = IF publisher # Nil
                THEN Append(evlog, [kind |-> "devicePublisher", publisher |-> publisher])
                ELSE evlog
  /\ tpc' = "$stats/uptime"
  /\ UNCHANGED <<deviceVars, clock, conn, token, will, pendingConnect,
                 pendingLost, counterVars, pc, arg, last, retained, nodesHist,
                 pubResults, lostHookCalls, slices, config, sendCalls>>

\* d.PublishStats() from initDevice
BootPublishStats ==
  BootSend("$stats/uptime", <<"$stats", "/", "uptime">>, Uptime, "$broadcast")
    /\ UNCHANGED nodesHist

\* d.client.Subscribe(BaseTopic + "$broadcast/+", 1, handler); the handler
\* returns and the connected event is done
SubscribeBroadcast ==
  /\ tpc = "$broadcast"
  /\ evlog' = Append(evlog, [kind |-> "subscribe",
                             topic |-> BaseTopic \o <<"$broadcast", "/", "+">>,
                             qos |-> 1])
  /\ tpc' = "idle"
  /\ bootDone' = bootDone + 1
  /\ last' = Call("OnConnect", "ok")
  /\ UNCHANGED <<deviceVars, clock, conn, token, will, pendingConnect,
                 pendingLost, pc, arg, retained, nodesHist, pubResults,
                 lostHookCalls, slices, config, sendCalls, connectCalls, connEvents,
                 addCalls, disconnectCalls, statsCalls>>

\* The caller's context of the device's lifecycle.  It registers nodes and
\* sets the device publisher (once) before it connects; repeated and
\* concurrent registry calls are the subject of SpecRegistry.
Main == "c1"

\* The registry calls of the lifecycle's caller, which goes on to connect:
\* it adds no name twice, since the failure of AddNode ends the program
Setup ==
  \/ \E n \in NodeObjs : ~AlreadyAdded(n) /\ AddNode(Main, n)
  \/ \E p \in Publishers : pubResults = <<>> /\ SetPubLock(Main, p)
  \/ SetPubCheck(Main)
  \/ SetPubStore(Main)

\* The steps of the transport's session
Transport ==
  \/ HandshakeOK
  \/ HandshakeFail
  \/ NetworkDrop
  \/ Reconnect
  \/ ConnectionLost

\* The steps of the on-connect handler
Bootstrap ==
  \/ OnConnect
  \/ InitNodes
  \/ InitDeviceCheck
  \/ PublishHomie
  \/ PublishName
  \/ PublishLocalIP
  \/ PublishImplementation
  \/ PublishState
  \/ PublishStatsInterval
  \/ PublishNodes
  \/ PublishAllNodes
  \/ InvokeDevicePublisher
  \/ BootPublishStats
  \/ SubscribeBroadcast

Next ==
  \/ Tick
  \/ Setup
  \/ ConnectBegin(Main)
  \/ ConnectReturn(Main)
  \/ DisconnectSend(Main)
  \/ DisconnectClose(Main)
  \/ Transport
  \/ Bootstrap

Spec == Init /\ [][Next]_vars

\* A configured device that connects and is never disconnected by its caller
NextBootstrap ==
  \/ Setup
  \/ ConnectBegin(Main)
  \/ ConnectReturn(Main)
  \/ Transport
  \/ Bootstrap

SpecBootstrap == Init /\ [][NextBootstrap]_vars

\* A device without nodes or publisher over its whole lifecycle
NextLifecycle ==
  \/ Tick
  \/ ConnectBegin(Main)
  \/ ConnectReturn(Main)
  \/ DisconnectSend(Main)
  \/ DisconnectClose(Main)
  \/ Transport
  \/ Bootstrap

SpecLifecycle == Init /\ [][NextLifecycle]_vars

\* The registry operations, called from several contexts at once
NextRegistry ==
  \/ \E c \in Callers, n \in NodeObjs : AddNode(c, n)
  \/ \E c \in Callers, p \in Publishers : SetPubLock(c, p)
  \/ \E c \in Callers : SetPubCheck(c)
  \/ \E c \in Callers : SetPubStore(c)

SpecRegistry == Init /\ [][NextRegistry]_vars

\* A device without nodes that is connected, disconnected and connected
\* again, with the wait loop of Connect spelled out
NextConnect ==
  \/ ConnectAgain(Main)
  \/ ConnectWait(Main)
  \/ ConnectReturn(Main)
  \/ DisconnectSend(Main)
  \/ DisconnectClose(Main)
  \/ Transport
  \/ Bootstrap

SpecConnect == Init /\ [][NextConnect]_vars

\* The same, with a caller that is scheduled: once the wait loop can end, it
\* ends
SpecConnectFair == SpecConnect /\ WF_vars(ConnectReturn(Main))

\* A device without nodes whose caller reports the uptime as time passes
NextStats ==
  \/ Tick
  \/ ConnectBegin(Main)
  \/ ConnectReturn(Main)
  \/ PublishStats(Main)
  \/ Transport
  \/ Bootstrap

SpecStats == Init /\ [][NextStats]_vars

\* Devices of any name and base topic whose caller asks for topics and
\* sends messages of its own
NextTopic ==
  \/ ConnectBegin(Main)
  \/ ConnectReturn(Main)
  \/ TopicCall(Main)
  \/ SendCall(Main)
  \/ Transport
  \/ Bootstrap

SpecTopic == InitTopic /\ [][NextTopic]_vars

(***************************************************************************)
(* Vocabulary of the properties                                            *)
(***************************************************************************)
\* The device's topic space, written out
Under(part) == <<"home", "/", "sensor1", "/">> \o part
StateTopic == Under(<<"$state">>)

\* What a logged call is about: the topic of a publish, else its kind
KeyOf(e) == IF e.kind = "publish" THEN e.topic ELSE <<e.kind>>
IsNodeInit(e) == e.kind \in {"nodeSubscribe", "nodePublisher"}
IsAnnouncement(e) == ~IsNodeInit(e)
Announcements == SelectSeq(evlog, IsAnnouncement)
Keys(log) == [i \in 1..Len(log) |-> KeyOf(log[i])]

MetadataOrder ==
  <<Under(<<"$homie">>), Under(<<"$name">>), Under(<<"$localip">>),
    Under(<<"$implementation">>), StateTopic,
    Under(<<"$stats", "/", "interval">>)>>

AnnouncementOrder(withPublisher) ==
  MetadataOrder \o <<Under(<<"$nodes">>), <<"nodePublish">>>>
    \o (IF withPublisher THEN <<<<"devicePublisher">>>> ELSE <<>>)
    \o <<Under(<<"$stats", "/", "uptime">>), <<"subscribe">>>>

BootstrapCompleted == tpc = "idle" /\ Announcements # <<>>

\* C1: in every connected event the announcements are issued in the order
\* $homie, $name, $localip, $implementation, $state=ready, $stats/interval,
\* $nodes, the Publish of every registered node, the device publisher if one
\* is configured, $stats/uptime, the broadcast subscription: at every moment
\* what has been issued is a prefix of that order, and the whole of it once
\* the handler has returned.
C1_AnnouncementOrder ==
  /\ IsPrefix(Keys(Announcements), AnnouncementOrder(publisher # Nil))
  /\ BootstrapCompleted => Keys(Announcements) = AnnouncementOrder(publisher # Nil)
  /\ \A i \in 1..Len(evlog) :
       /\ (evlog[i].kind = "publish" /\ evlog[i].topic = StateTopic)
            => evlog[i].payload = <<"ready">>
       /\ evlog[i].kind = "nodePublish" => evlog[i].nodes = RegisteredNodes
       /\ evlog[i].kind = "devicePublisher" => evlog[i].publisher = publisher

C1_Witness ==
  /\ BootstrapCompleted
  /\ Cardinality(RegisteredNodes) >= 2
  /\ publisher # Nil
  /\ Len(Announcements) = 11

\* C2 (as claimed): a node's Subscribe and per-node publisher callback are
\* invoked only after the device metadata, $nodes and every node's Publish
\* of the same connected event have been issued.
C2_NodeInitAfterAnnouncements ==
  \A i \in 1..Len(evlog) :
    (IsNodeInit(evlog[i]) /\ evlog[i].nodes # {}) =>
      LET before == MetadataOrder \o <<Under(<<"$nodes">>), <<"nodePublish">>>>
      IN  \A k \in 1..Len(before) :
            \E j \in 1..(i - 1) : KeyOf(evlog[j]) = before[k]

\* C3: once a bootstrap has completed and before any Disconnect, the last
\* $state the device published is "ready"; the last will registered before
\* the connection is initiated is "lost" on $state, retained, QoS 1.
C3_ReadyAndWill ==
  /\ (bootDone >= 1 /\ disconnectCalls = 0) =>
       (StateTopic \in DOMAIN retained /\ retained[StateTopic] = <<"ready">>)
  /\ conn # "none" =>
       will = [topic |-> StateTopic, payload |-> <<"lost">>, qos |-> 1,
               retained |-> TRUE]

C3_Witness ==
  /\ bootDone >= 2
  /\ disconnectCalls = 0
  /\ tpc = "idle"
  /\ conn = "lost"
  /\ retained[StateTopic] = <<"ready">>

\* C4 (as claimed): once Disconnect has returned, the last $state the
\* device published is "disconnected", whatever the transport context did
\* meanwhile.
C4_DisconnectedAfterDisconnect ==
  conn = "closed" =>
    (StateTopic \in DOMAIN retained /\ retained[StateTopic] = <<"disconnected">>)

\* C5: an AddNode whose name is already registered fails fatally and leaves
\* the node mapping as it was; no step ever changes the node a registered
\* name maps to, so each name maps to the first node registered under it.
C5_NoOverwrite ==
  [][/\ \A k \in DOMAIN nodes : k \in DOMAIN nodes' /\ nodes'[k] = nodes[k]
     /\ \A n \in NodeObjs :
          (owner'[n] # owner[n] /\ NameOf[n] \in DOMAIN nodes) =>
            (nodes' = nodes /\ last' = Call("AddNode", "panic"))]_vars

C5_Witness ==
  /\ last = Call("AddNode", "panic")
  /\ owner["n1"] = 1
  /\ owner["n3"] = 1
  /\ GetNode(<<"a">>) = "n1"

OkCalls == {i \in 1..Len(pubResults) : pubResults[i].result = "ok"}
AssigningCalls == {i \in OkCalls : pubResults[i].arg # Nil}

\* C6 (as claimed): of the SetDevicePublisher calls on a device exactly one
\* succeeds, the first; every other call fails and the stored publisher is
\* the one of the successful call.
C6_ExactlyOneSucceeds ==
  Len(pubResults) >= 1 =>
    /\ OkCalls = {1}
    /\ publisher = pubResults[1].arg

\* C6 (amended): a call made while a non-nil publisher is stored fails and
\* leaves it unchanged; at most one call passing a non-nil publisher ever
\* succeeds, it is the one stored, and every call finishing after it fails.
\* A call that fails comes after such a call.
C6_OneAssignment ==
  /\ Cardinality(AssigningCalls) <= 1
  /\ \A i \in AssigningCalls :
       /\ publisher = pubResults[i].arg
       /\ \A j \in (i + 1)..Len(pubResults) : pubResults[j].result = "panic"
  /\ \A j \in 1..Len(pubResults) :
       pubResults[j].result = "panic" => \E i \in AssigningCalls : i < j
  /\ AssigningCalls = {} => publisher = Nil

C6_Witness ==
  /\ Len(pubResults) = 2
  /\ pubResults[1] = [arg |-> "p1", result |-> "ok"]
  /\ pubResults[2] = [arg |-> "p2", result |-> "panic"]
  /\ publisher = "p1"

\* C7 (as claimed): once connectTime is set, no later event changes it.
C7_SetOnce == [][connectTime # ZeroTime => connectTime' = connectTime]_vars

\* C7 (amended): connectTime is unset before the first connected event;
\* every connected event, the first and each reconnect, sets it to the time
\* of that event, and no other step changes it.
C7_SetByEveryConnectedEvent ==
  /\ [](connEvents = 0 => connectTime = ZeroTime)
  /\ [][IF connEvents' # connEvents
          THEN connectTime' = clock
          ELSE connectTime' = connectTime]_vars

C7_Witness ==
  /\ connEvents = 2
  /\ connectTime = clock
  /\ clock > StartupTime
  /\ disconnectCalls = 1

\* C8 (as claimed): two bootstrap runs over the same set of two or more
\* registered nodes publish the same $nodes payload.
C8_SameNodesPayload ==
  \A i, j \in 1..Len(nodesHist) :
    (nodesHist[i].reg = nodesHist[j].reg /\ Cardinality(nodesHist[i].reg) >= 2)
      => nodesHist[i].payload = nodesHist[j].payload

RECURSIVE SplitFrom(_, _)
SplitFrom(s, cur) ==
  IF s = <<>> THEN <<cur>>
  ELSE IF Head(s) = "," THEN <<cur>> \o SplitFrom(Tail(s), <<>>)
  ELSE SplitFrom(Tail(s), Append(cur, Head(s)))
\* The names a reader of the payload finds between the separators
Split(s) == SplitFrom(s, <<>>)

NamesOnce(payload, reg) ==
  /\ Len(Split(payload)) = Cardinality(reg)
  /\ {Split(payload)[i] : i \in 1..Len(Split(payload))} = reg

NoEdgeSeparator(payload) ==
  payload # <<>> => (Head(payload) # "," /\ payload[Len(payload)] # ",")

PlainNames(reg) == \A nm \in reg : nm # <<>> /\ \A i \in 1..Len(nm) : nm[i] # ","

\* C9 (as claimed): the $nodes payload holds every registered name once and
\* no other, separated by single commas with none leading or trailing, and
\* is empty when no node is registered.
C9_NodesPayload ==
  \A i \in 1..Len(nodesHist) :
    IF nodesHist[i].reg = {}
      THEN nodesHist[i].payload = <<>>
      ELSE /\ NamesOnce(nodesHist[i].payload, nodesHist[i].reg)
           /\ NoEdgeSeparator(nodesHist[i].payload)

\* C9 (amended): the same, for registered names that are non-empty and hold
\* no comma; with any names, the payload is empty when no node is registered
\* and otherwise has one separator less than there are registered nodes.
C9_NodesPayloadPlainNames ==
  \A i \in 1..Len(nodesHist) :
    LET h == nodesHist[i] IN
      /\ h.reg = {} => h.payload = <<>>
      /\ (h.reg # {} /\ PlainNames(h.reg)) =>
           (NamesOnce(h.payload, h.reg) /\ NoEdgeSeparator(h.payload))
      /\ h.reg # {} =>
           Cardinality({k \in 1..Len(h.payload) : h.payload[k] = ","})
             = Cardinality(h.reg) - 1

C9_Witness ==
  /\ Len(nodesHist) >= 1
  /\ nodesHist[Len(nodesHist)].reg = {<<"a">>, <<"b">>}
  /\ nodesHist[Len(nodesHist)].payload = <<"b", ",", "a">>
  /\ tpc = "nodePublish"

\* C10 (as claimed): Disconnect never fails fatally, whatever the state of
\* the device.
C10_DisconnectNeverPanics == last # Call("Disconnect", "panic")

(***************************************************************************)
(* C11: the result of Connect                                              *)
(***************************************************************************)
\* The step on which the Connect call of the caller returns
ConnectReturns == pc[Main] = "connect_wait" /\ pc'[Main] = "idle"

\* Connect returns an error exactly when the negotiation failed and nil
\* exactly when it succeeded.
ResultFollowsNegotiation ==
  ConnectReturns =>
    /\ last'.op = "Connect"
    /\ last'.result = "error" <=> conn = "failed"
    /\ last'.result = "nil" <=> conn \in {"connected", "lost", "closed"}
    /\ last'.result \in {"error", "nil"}

\* A connection attempt is started by a Connect call and by nothing else:
\* one call, one attempt, and a failed attempt stays failed until the next
\* call.
OneAttemptPerCall ==
  /\ conn' = "connecting" /\ conn # "connecting" =>
        pc[Main] = "idle" /\ pc'[Main] = "connect_wait"
  /\ connectCalls' # connectCalls =>
        /\ connectCalls' = connectCalls + 1
        /\ pc[Main] = "idle" /\ pc'[Main] = "connect_wait"
        /\ conn' = "connecting"
  /\ ConnectReturns => UNCHANGED <<conn, token, connectCalls>>

\* Connect has returned an error and the caller has made no call since
FailedConnect ==
  last = Call("Connect", "error") /\ pc[Main] = "idle" /\ conn = "failed"

\* C11 (as claimed): Connect returns an error exactly when the negotiation
\* failed, one call makes one attempt, and after a failed Connect nothing
\* has been published and the device holds no connection handle.
C11_FailedConnectLeavesNothing ==
  /\ [][ResultFollowsNegotiation /\ OneAttemptPerCall]_vars
  /\ [](FailedConnect => client = NilClient /\ retained = EmptyMap)

\* C11 (amended): Connect returns an error exactly when the negotiation
\* failed and one call makes one attempt; the failed attempt publishes
\* nothing and delivers no handle: the device holds no handle and nothing is
\* published when no earlier Connect led to a connected event, and otherwise
\* keeps the handle of the earlier client and what that one published.
C11_FailedAttemptAddsNothing ==
  /\ [][ResultFollowsNegotiation /\ OneAttemptPerCall]_vars
  /\ [](FailedConnect =>
          /\ client.inst < connectCalls
          /\ connEvents = 0 => client = NilClient /\ retained = EmptyMap)
  /\ [][conn = "failed" => UNCHANGED <<client, retained, connEvents>>]_vars

C11_Witness ==
  /\ FailedConnect
  /\ connectCalls = 2
  /\ client = Handle(1, 1)
  /\ StateTopic \in DOMAIN retained
  /\ retained[StateTopic] = <<"disconnected">>

(***************************************************************************)
(* C12: the connected check of the handler                                 *)
(***************************************************************************)
\* The handler of the latest connected event has failed on "not connected"
BootstrapFailed == last = Call("OnConnect", "panic") /\ tpc = "idle"

\* C12 (as claimed): when the transport is not connected as the connected
\* event is handled, the handler fails before anything else: it has
\* published nothing and has called no node's Subscribe or per-node
\* publisher for that event.
C12_FailsBeforeAnything ==
  BootstrapFailed =>
    \A i \in 1..Len(evlog) :
      /\ evlog[i].kind # "publish"
      /\ IsNodeInit(evlog[i]) => evlog[i].nodes = {}

(***************************************************************************)
(* C13: the uptime                                                         *)
(***************************************************************************)
UptimeTopic == Under(<<"$stats", "/", "uptime">>)

RECURSIVE ParseInt(_)
\* The number a string of decimal digits stands for
ParseInt(str) ==
  IF Len(str) = 0 THEN 0
  ELSE LET d == CHOOSE k \in 0..9 : Digits[k + 1] = str[Len(str)]
       IN  10 * ParseInt(SubSeq(str, 1, Len(str) - 1)) + d

IsNumber(str) ==
  Len(str) >= 1 /\ \A k \in 1..Len(str) : \E d \in 1..10 : Digits[d] = str[k]

\* C13 (as claimed): every PublishStats call publishes on $stats/uptime the
\* whole seconds since the device was constructed, a non-negative number,
\* and the published values never decrease.
C13_UptimeSecondsNeverDecrease ==
  /\ [](last # Call("PublishStats", "panic"))
  /\ [][(statsCalls' # statsCalls /\ Accepts) =>
          /\ UptimeTopic \in DOMAIN retained'
          /\ IsNumber(retained'[UptimeTopic])
          /\ 2 * ParseInt(retained'[UptimeTopic]) <= clock - 1
          /\ clock - 1 < 2 * (ParseInt(retained'[UptimeTopic]) + 1)]_vars
  /\ [][(UptimeTopic \in DOMAIN retained /\ UptimeTopic \in DOMAIN retained') =>
          ParseInt(retained'[UptimeTopic]) >= ParseInt(retained[UptimeTopic])]_vars

(***************************************************************************)
(* C14: topics                                                             *)
(***************************************************************************)
\* t is the base topic, then the device's name, then one "/", then part,
\* and nothing else.
Addressed(t, part) ==
  LET b == Len(config.baseTopic)
      n == Len(config.name)
  IN  /\ Len(t) = b + n + 1 + Len(part)
      /\ SubSeq(t, 1, b) = config.baseTopic
      /\ SubSeq(t, b + 1, b + n) = config.name
      /\ t[b + n + 1] = "/"
      /\ SubSeq(t, b + n + 2, Len(t)) = part

\* The parts the handler of a device without nodes publishes on
BootParts ==
  {<<"$homie">>, <<"$name">>, <<"$localip">>, <<"$implementation">>,
   <<"$state">>, <<"$stats", "/", "interval">>, <<"$nodes">>,
   <<"$stats", "/", "uptime">>}

\* C14: for every device name, base topic and part, Topic(part) is the base
\* topic, the name, one "/" and the part as it was passed, an empty part
\* and a part with "/" included; SendMessage publishes on that topic and
\* on no other.
C14_TopicIsConcatenation ==
  /\ last.op = "Topic" => Addressed(last.result, last.part)
  /\ (last.op = "SendMessage" /\ last.result = "sent") =>
       \E t \in DOMAIN retained :
         /\ Addressed(t, last.part)
         /\ retained[t] = <<"x">> \/ last.part \in BootParts
  /\ \A t \in DOMAIN retained :
       IF retained[t] = <<"x">>
         THEN sendCalls >= 1 /\ \E part \in Parts : Addressed(t, part)
         ELSE \E part \in BootParts : Addressed(t, part)

C14_Witness ==
  /\ config = [name |-> <<"a", "/", "b">>, baseTopic |-> <<>>]
  /\ last = [op |-> "SendMessage", part |-> <<"/", "x">>, result |-> "sent"]
  /\ <<"a", "/", "b", "/", "/", "x">> \in DOMAIN retained
  /\ <<"a", "/", "b", "/", "$homie">> \in DOMAIN retained

(***************************************************************************)
(* C15: Connect and the handler                                            *)
(***************************************************************************)
\* C15: a successful Connect does not tell that the bootstrap is done:
\* Connect returns as soon as the connect result is there, wherever the
\* handler of the connected event stands, so Connect has returned nil in
\* states where the handler has not finished, or not started.
C15_ReturnDoesNotAwaitBootstrap ==
  (pc[Main] = "connect_wait" /\ token # "pending") => ENABLED ConnectReturn(Main)

C15_Witness ==
  /\ last = Call("Connect", "nil")
  /\ pc[Main] = "idle"
  /\ pendingConnect
  /\ connEvents = 0
  /\ bootDone = 0
  /\ client = NilClient

(***************************************************************************)
(* C16: every connected event                                              *)
(***************************************************************************)
\* The whole sequence of one connected event
WholeSequence ==
  <<<<"nodeSubscribe">>, <<"nodePublisher">>>>
    \o AnnouncementOrder(publisher # Nil)

\* The metadata topics whose value is fixed by the configuration
FixedMetadata ==
  {Under(<<"$homie">>), Under(<<"$name">>), Under(<<"$implementation">>),
   StateTopic, Under(<<"$stats", "/", "interval">>)}

\* The step publishes on one of them
PublishesMetadata ==
  /\ Len(evlog') = Len(evlog) + 1
  /\ evlog'[Len(evlog')].kind = "publish"
  /\ evlog'[Len(evlog')].topic \in FixedMetadata

\* C16: every connected event, the first and each reconnect, runs the whole
\* sequence again: the handler starts with Subscribe and the per-node
\* publisher of every registered node, and when it has returned it has
\* issued the whole sequence; once a bootstrap has completed, what a later
\* one publishes on $homie, $name, $implementation, $state and
\* $stats/interval is the value that is already there.
C16_EveryEventBootstrapsAgain ==
  /\ [](tpc \notin {"idle", "initNodes"} =>
          /\ Len(evlog) >= 2
          /\ evlog[1] = NodeLoop("nodeSubscribe", RegisteredNodes)
          /\ evlog[2] = NodeLoop("nodePublisher", InvokedNodePublishers))
  /\ [](BootstrapCompleted => Keys(evlog) = WholeSequence)
  /\ [][(PublishesMetadata /\ bootDone >= 1) =>
          LET e == evlog'[Len(evlog')]
          IN  /\ e.topic \in DOMAIN retained
              /\ e.payload = retained[e.topic]
              /\ retained' = retained]_vars

C16_Witness ==
  /\ bootDone = 2
  /\ connEvents = 2
  /\ BootstrapCompleted
  /\ RegisteredNodes = {"n1", "n2"}
  /\ Keys(evlog) = WholeSequence
  /\ retained[StateTopic] = <<"ready">>

(***************************************************************************)
(* C17: the wait of Connect                                                *)
(***************************************************************************)
\* C17: Connect blocks its caller until the pending connect result is
\* there and has no deadline of its own: it never returns while the result
\* is pending, however many 3-second waits have passed, and once the result
\* is there, success or failure, Connect returns.
C17_BlocksUntilResolved ==
  /\ [][ConnectReturns => token # "pending"]_vars
  /\ [][(pc[Main] = "connect_wait" /\ token = "pending" /\ slices' # slices) =>
          pc'[Main] = "connect_wait" /\ token' = "pending"]_vars
  /\ (pc[Main] = "connect_wait" /\ token # "pending") ~> (pc[Main] = "idle")

C17_Witness ==
  /\ pc[Main] = "connect_wait"
  /\ token = "pending"
  /\ slices = MaxSlices
  /\ connectCalls = 2

(***************************************************************************)
(* C18: the connection-lost event                                          *)
(***************************************************************************)
\* The step on which the handler of a connection-lost event runs
LostHandled == pendingLost /\ ~pendingLost' /\ pc' = pc

\* C18: the handler of a connection-lost event calls the configured hook
\* once and does nothing else: it publishes nothing, starts no connection
\* attempt, and leaves the node mapping, the connection handle, connectTime
\* and the device publisher as they are; the hook is called on no other
\* step.
C18_LostEventAbsorbed ==
  /\ [][LostHandled =>
          /\ lostHookCalls' = lostHookCalls + 1
          /\ UNCHANGED <<nodes, client, connectTime, publisher>>
          /\ UNCHANGED <<retained, evlog, nodesHist>>
          /\ UNCHANGED <<conn, token, connectCalls, pendingConnect, tpc>>]_vars
  /\ [][lostHookCalls' # lostHookCalls => LostHandled]_vars

C18_Witness ==
  /\ lostHookCalls = 1
  /\ ~pendingLost
  /\ conn = "lost"
  /\ client = Handle(1, 1)
  /\ bootDone = 1
  /\ StateTopic \in DOMAIN retained
  /\ retained[StateTopic] = <<"ready">>

(***************************************************************************)
(* C19: the owner of a node                                                *)
(***************************************************************************)
\* C19 (as claimed): a node's owner is set only when the node is attached:
\* an AddNode call that is rejected leaves the owner of the rejected node
\* as it was, and no node has its owner set more than once.
C19_OwnerSetOnAttachOnly ==
  /\ [][\A n \in NodeObjs :
          owner'[n] # owner[n] =>
            /\ last' = Call("AddNode", "ok")
            /\ NameOf[n] \notin DOMAIN nodes
            /\ NameOf[n] \in DOMAIN nodes' /\ nodes'[NameOf[n]] = n]_vars
  /\ [](\A n \in NodeObjs : owner[n] <= 1)

(***************************************************************************)
(* C20: the connection handle                                              *)
(***************************************************************************)
\* C20: the device holds no handle before the first connected event and,
\* from that event on, the handle of the most recent connected event:
\* only a connected event changes it, to the handle that event delivers, so
\* neither a connection-lost event nor Disconnect clears or replaces it and
\* the device never is without a handle again.
C20_HandleOfLatestEvent ==
  /\ [](connEvents = 0 => client = NilClient)
  /\ [](connEvents >= 1 =>
          client.id = connEvents /\ client.inst \in 1..connectCalls)
  /\ [][client' # client =>
          /\ connEvents' = connEvents + 1
          /\ client' = Handle(connectCalls, connEvents')]_vars
  /\ [][client # NilClient => client' # NilClient]_vars

C20_Witness ==
  /\ client = Handle(1, 2)
  /\ conn = "closed"
  /\ last = Call("Disconnect", "nil")
  /\ lostHookCalls >= 1
  /\ connectCalls = 1
====
